---- MODULE Spec2Model ----
(***************************************************************************)
(* A model of clickhouse_cli/cli.py: the CLI object's configuration       *)
(* resolution (load_config), the connect step, run-mode selection in      *)
(* run(), the statement loop of handle_input and the command dispatch of  *)
(* handle_query, with the interactive loop's interrupt handling.          *)
(*                                                                         *)
(* Text (str and bytes) is a sequence of one-character strings; a literal  *)
(* of the source that is only ever concatenated or compared as a whole is  *)
(* one element of the sequence.  An optional value (None in Python) is a   *)
(* sequence of length 0 or 1.                                              *)
(***************************************************************************)
EXTENDS Integers, Sequences, FiniteSets, TLC

\* ------------------------------------------------------------- bounds
\* Longest generated input text (interactive line, file content).
MaxLen == 3
\* Input units read by the interactive loop before the model stops reading.
MaxUnits == 2
\* Data items (stdin and files) given to run().
MaxFiles == 2

\* ------------------------------------------------------ optional values
None == <<>>
Some(x) == <<x>>

\* ---------------------------------------------------------------- text
\* str.rstrip(ch)
RECURSIVE rstrip(_, _)
rstrip(s, ch) ==
    IF s # <<>> /\ s[Len(s)] = ch THEN rstrip(SubSeq(s, 1, Len(s) - 1), ch) ELSE s

Whitespace == {" ", "\n"}

RECURSIVE lstrip_ws(_)
lstrip_ws(s) == IF s # <<>> /\ Head(s) \in Whitespace THEN lstrip_ws(Tail(s)) ELSE s

RECURSIVE rstrip_ws(_)
rstrip_ws(s) ==
    IF s # <<>> /\ s[Len(s)] \in Whitespace THEN rstrip_ws(SubSeq(s, 1, Len(s) - 1)) ELSE s

\* str.strip()
strip(s) == rstrip_ws(lstrip_ws(s))

\* str.lower(), on the letters the model's texts use
LowerChar(c) ==
    CASE c = "Q" -> "q" [] c = "U" -> "u" [] c = "I" -> "i" [] c = "T" -> "t"
      [] c = "H" -> "h" [] c = "E" -> "e" [] c = "L" -> "l" [] c = "P" -> "p"
      [] OTHER -> c

lower(s) == [i \in 1..Len(s) |-> LowerChar(s[i])]

\* str.startswith / str.endswith
startswith(s, pre) == Len(s) >= Len(pre) /\ SubSeq(s, 1, Len(pre)) = pre
endswith(s, suf) == Len(s) >= Len(suf) /\ SubSeq(s, Len(s) - Len(suf) + 1, Len(s)) = suf

\* s[n:] with n counted from 0, as in Python
\* A slice that starts one character early.
DropFirst_early(s, n) == SubSeq(s, n, Len(s))

DropFirst(s, n) == SubSeq(s, n + 1, Len(s))

\* ------------------------------------------------------- configuration
\* Python truthiness of an optional string: None and '' are false.
Truthy(v) == v # None /\ v[1] # ""

\* a or b
OrElse(a, b) == IF Truthy(a) THEN a ELSE b

\* dict.update: the entries of b laid over those of a
DictUpdate(a, b) ==
    [k \in (DOMAIN a) \cup (DOMAIN b) |-> IF k \in DOMAIN b THEN b[k] ELSE a[k]]

EmptyDict == [k \in {} |-> ""]

\* The values a command line can give: an absent option is None, a flag is a
\* boolean, --settings is shown parsed.
CliSettings == {EmptyDict, [k \in {"a"} |-> "cli"]}

CliArgs ==
    [host : {None, Some("x")}, port : {None, Some("9000")},
     user : {None, Some("u")}, password : {None, Some("pw")},
     database : {None, Some("d")}, settings : CliSettings,
     format : {None, Some("Vertical")}, format_stdin : {None, Some("CSV")},
     multiline : BOOLEAN, stacktrace : {FALSE}]

\* The contents read_config() can return.
FileSettings == {EmptyDict, [k \in {"a", "b"} |-> "file"]}

ConfigFiles ==
    [multiline : BOOLEAN, format : {"PrettyCompact"}, format_stdin : {"TabSeparated"},
     show_formatted_query : {TRUE}, highlight : {TRUE}, highlight_output : {TRUE},
     pager : {FALSE}, timing : {TRUE},
     host : {"", "y"}, port : {"", "8124"}, user : {"", "fu"},
     password : {"", "fpw"}, db : {"", "fdb"}, settings : FileSettings]

\* The command line and the configuration file of the runs of Spec.
MainArgs ==
    {[host |-> None, port |-> None, user |-> None, password |-> None,
      database |-> None, settings |-> EmptyDict, format |-> None,
      format_stdin |-> None, multiline |-> FALSE, stacktrace |-> FALSE]}

MainConfigs ==
    {[multiline |-> FALSE, format |-> "PrettyCompact", format_stdin |-> "TabSeparated",
      show_formatted_query |-> TRUE, highlight |-> TRUE, highlight_output |-> TRUE,
      pager |-> FALSE, timing |-> TRUE,
      host |-> "", port |-> "", user |-> "", password |-> "", db |-> "",
      settings |-> EmptyDict]}

\* CLI.__init__: the attributes of a fresh CLI object
CLI_init(a) ==
    [host |-> a.host, port |-> a.port, user |-> a.user, password |-> a.password,
     database |-> a.database, settings |-> a.settings, format |-> a.format,
     format_stdin |-> a.format_stdin, multiline |-> a.multiline,
     stacktrace |-> a.stacktrace,
     show_formatted_query |-> None, highlight |-> None, highlight_output |-> None]

\* CLI.load_config: the attributes after reading configuration c
load_config(s, c) ==
    [s EXCEPT
        !.multiline = c.multiline,
        !.format = OrElse(s.format, Some(c.format)),
        !.format_stdin = OrElse(s.format_stdin, Some(c.format_stdin)),
        !.show_formatted_query = Some(c.show_formatted_query),
        !.highlight = Some(c.highlight),
        !.highlight_output = Some(c.highlight_output),
        !.host = OrElse(OrElse(s.host, Some(c.host)), Some("127.0.0.1")),
        !.port = OrElse(OrElse(s.port, Some(c.port)), Some("8123")),
        !.user = OrElse(OrElse(s.user, Some(c.user)), Some("default")),
        !.password = OrElse(OrElse(s.password, Some(c.password)), Some("")),
        !.database = OrElse(OrElse(s.database, Some(c.db)), Some("default")),
        !.settings = DictUpdate(c.settings, s.settings)]


\* ------------------------------------------------------- version probe
Digits == {"0", "1", "2", "3", "4", "5", "6", "7", "8", "9"}

DigitVal(c) ==
    CASE c = "0" -> 0 [] c = "1" -> 1 [] c = "2" -> 2 [] c = "3" -> 3 [] c = "4" -> 4
      [] c = "5" -> 5 [] c = "6" -> 6 [] c = "7" -> 7 [] c = "8" -> 8 [] c = "9" -> 9

\* int(s) succeeds: decimal digits, surrounding whitespace allowed
IntOk(s) == strip(s) # <<>> /\ \A i \in 1..Len(strip(s)) : strip(s)[i] \in Digits

RECURSIVE DigitsVal(_)
DigitsVal(s) == IF s = <<>> THEN 0 ELSE 10 * DigitsVal(SubSeq(s, 1, Len(s) - 1)) + DigitVal(s[Len(s)])

\* int(s), where it succeeds
IntVal(s) == DigitsVal(strip(s))

\* str.split(sep): the pieces between separators, at least one
RECURSIVE SplitOn(_, _, _)
SplitOn(s, sep, acc) ==
    IF s = <<>> THEN <<acc>>
    ELSE IF Head(s) = sep THEN <<acc>> \o SplitOn(Tail(s), sep, <<>>)
    ELSE SplitOn(Tail(s), sep, Append(acc, Head(s)))

\* One call of an Echo method or of print: the function and the text.
Out(fn, text) == [fn |-> fn, text |-> text]

\* A request to the client, kill_query included.
Request(op, statement, fmt, dataArg, stream, verbose, query_id, compress) ==
    [op |-> op, statement |-> statement, fmt |-> fmt, data |-> dataArg,
     stream |-> stream, verbose |-> verbose, query_id |-> query_id,
     compress |-> compress]

ProbeRequest ==
    Request("query", <<"SELECT version();">>, Some("TabSeparated"), None,
            FALSE, FALSE, None, "False")

\* What the server does with the version probe: the exception client.query
\* raises, or the response's data.
ProbeError(kind, stacktrace) == [kind |-> kind, stacktrace |-> stacktrace, data |-> <<>>]
ProbeData(text) == [kind |-> "data", stacktrace |-> None, data |-> text]

\* The version parse of connect(): the exception its indexing and int() calls
\* raise, in evaluation order, or None.
VersionParseError(version) ==
    IF ~IntOk(version[1]) THEN Some("ValueError")
    ELSE IF Len(version) < 2 THEN Some("IndexError")
    ELSE IF ~IntOk(version[2]) THEN Some("ValueError")
    ELSE IF Len(version) < 3 THEN Some("IndexError")
    ELSE IF ~IntOk(version[3]) THEN Some("ValueError")
    ELSE None

\* connect, lines 85-99: the except clauses of the probe; each one reports
\* its error and returns False.
connect_failed(s, p) ==
    LET hello == <<Out("echo.print", <<"Connecting to {host}:{port}">>)>>
    IN  CASE p.kind = "TimeoutError" ->
               [ret |-> "False", exc |-> None, server_version |-> None,
                echoed |-> hello \o <<Out("echo.error", <<"Error: Connection timeout.">>)>>]
          [] p.kind = "ConnectionError" ->
               [ret |-> "False", exc |-> None, server_version |-> None,
                echoed |-> hello \o <<Out("echo.error", <<"Error: Failed to connect.">>)>>]
          [] OTHER ->
               [ret |-> "False", exc |-> None, server_version |-> None,
                echoed |-> hello \o <<Out("echo.error", <<"Error:">>),
                                      Out("echo.error", <<"e.error">>)>>
                           \o (IF s.stacktrace /\ p.stacktrace # None /\ p.stacktrace # Some(<<>>)
                               THEN <<Out("echo.print", <<"Stack trace:">>),
                                      Out("echo.print", p.stacktrace[1])>>
                               ELSE <<>>)]

\* connect, lines 101-113: the terminator test and the version parse of a
\* response; the parse's exceptions are caught nowhere in connect.
connect_parsed(p) ==
    LET hello == <<Out("echo.print", <<"Connecting to {host}:{port}">>)>>
        version == SplitOn(strip(p.data), ".", <<>>)
    IN  IF ~endswith(p.data, <<"\n">>)
        THEN [ret |-> "False", exc |-> None, server_version |-> None,
              echoed |-> hello \o <<Out("echo.error",
                  <<"Error: Request failed: SELECT version(); query failed.">>)>>]
        ELSE IF VersionParseError(version) # None
        THEN [ret |-> "raise", exc |-> VersionParseError(version),
              server_version |-> None, echoed |-> hello]
        ELSE [ret |-> "True", exc |-> None,
              server_version |-> Some(<<IntVal(version[1]), IntVal(version[2]),
                                        IntVal(version[3])>>),
              echoed |-> hello \o <<Out("echo.success",
                  <<"Connected to ClickHouse server v{0}.{1}.{2}.\n">>)>>]

\* A connect whose timeout clause reports the error and does not return False.
connect_ignores_timeout(s, p) ==
    IF p.kind = "data" THEN connect_parsed(p)
    ELSE IF p.kind = "TimeoutError" THEN [connect_failed(s, p) EXCEPT !.ret = "True"]
    ELSE connect_failed(s, p)

\* CLI.connect, from the client.query call on: what it returns ("True",
\* "False") or that it raises, the server version it stores and what it echoes.
connect(s, p) ==
    IF p.kind = "data" THEN connect_parsed(p) ELSE connect_failed(s, p)

ProbeErrors ==
    {ProbeError("TimeoutError", None), ProbeError("ConnectionError", None),
     ProbeError("DBException", None), ProbeError("DBException", Some(<<"trace">>))}

\* The probe outcomes: the failures, two well-formed versions on either side
\* of the patch threshold, and malformed responses (no terminator, too few
\* components, a component that is no number, an empty response).
Probes ==
    ProbeErrors \cup
    {ProbeData(<<"1", ".", "1", ".", "5", "4", "1", "1", "4", "\n">>),
     ProbeData(<<"1", ".", "1", ".", "5", "4", "1", "1", "5", "\n">>),
     ProbeData(<<"1", ".", "1", ".", "1">>),
     ProbeData(<<"1", ".", "1", "\n">>),
     ProbeData(<<"1", ".", "x", ".", "1", "\n">>),
     ProbeData(<<"\n">>)}


\* ----------------------------------------------------------- statements
\* sqlparse.split: a statement ends at a semicolon; whitespace after it still
\* belongs to it and the next other character starts the next statement; a
\* pending rest is a statement too.  Each statement is returned stripped.
RECURSIVE StatementSplitter(_, _, _)
StatementSplitter(s, tokens, consume_ws) ==
    IF s = <<>> THEN (IF tokens = <<>> THEN <<>> ELSE <<tokens>>)
    ELSE IF consume_ws /\ Head(s) # " " THEN <<tokens>> \o StatementSplitter(s, <<>>, FALSE)
    ELSE StatementSplitter(Tail(s), Append(tokens, Head(s)), consume_ws \/ Head(s) = ";")

sqlparse_split(s) ==
    LET stmts == StatementSplitter(s, <<>>, FALSE)
    IN  [i \in 1..Len(stmts) |-> strip(stmts[i])]

\* The pager marker, r'\p' and rb'\p'
PagerMarker == <<"\\", "p">>

\* A handle_input that removes the marker and forgets the flag.
force_pager_never(input_data) == FALSE

\* handle_input, lines 242-245: the force-pager flag of an input
force_pager_of(input_data) == endswith(input_data, PagerMarker)

\* handle_input, lines 243-244: the input with the marker removed
strip_marker(input_data) ==
    IF endswith(input_data, PagerMarker)
    THEN SubSeq(input_data, 1, Len(input_data) - 2)
    ELSE input_data

\* str(uuid4()): the identifier generated for statement k of the u-th
\* handle_input call, every one different
DigitChar(n) ==
    CASE n = 0 -> "0" [] n = 1 -> "1" [] n = 2 -> "2" [] n = 3 -> "3" [] n = 4 -> "4"
      [] n = 5 -> "5" [] n = 6 -> "6" [] n = 7 -> "7" [] n = 8 -> "8" [] n = 9 -> "9"

\* A generator that hands out one and the same identifier every time.
uuid4_constant(u, k) == <<"uuid-", "0", "-", "0">>

uuid4(u, k) == <<"uuid-", DigitChar(u), "-", DigitChar(k)>>

\* definitions.EXIT_COMMANDS
EXIT_COMMANDS == {<<"q">>, <<"q", "u", "i", "t">>, <<"e", "x", "i", "t">>}

\* definitions.PRETTY_FORMATS
PRETTY_FORMATS == {"Pretty", "PrettyCompact", "PrettyCompactMonoBlock", "PrettyNoEscapes", "PrettySpace"}

HelpCommands == {<<"\\", "?">>, <<"h", "e", "l", "p">>}

\* The patch version from which system.processes names the column read_rows.
PsPatchThreshold == 54115

\* handle_query, lines 264-292: the help table, row by row
HelpRows ==
    << <<"", "">>,
       <<"clickhouse-cli's custom commands:", "">>,
       <<"---------------------------------", "">>,
       <<"USE", "Change the current database.">>,
       <<"SET", "Set an option for the current CLI session.">>,
       <<"QUIT", "Exit clickhouse-cli.">>,
       <<"HELP", "Show this help message.">>,
       <<"", "">>,
       <<"PostgreSQL-like custom commands:", "">>,
       <<"--------------------------------", "">>,
       <<"\\l", "Show databases.">>,
       <<"\\c", "Change the current database.">>,
       <<"\\d, \\dt", "Show tables in the current database.">>,
       <<"\\d+", "Show table's schema.">>,
       <<"\\ps", "Show current queries.">>,
       <<"\\kill", "Kill query by its ID.">>,
       <<"", "">>,
       <<"Query suffixes:", "">>,
       <<"---------------", "">>,
       <<"\\g, \\G", "Use the Vertical format.">>,
       <<"\\p", "Enable the pager.">> >>

RECURSIVE HelpOutput(_)
HelpOutput(rows) ==
    IF rows = <<>> THEN <<>>
    ELSE <<Out("echo.success", <<rows[1][1]>>), Out("echo.info", <<rows[1][2]>>)>>
         \o HelpOutput(Tail(rows))

\* '{}'.format(query_id)
FormatId(query_id) == IF query_id = None THEN <<"None">> ELSE query_id[1]

\* A rewriting whose version test is off by one.
Rewrite_above_threshold(query, server_version, query_id) ==
    IF query \in {<<"\\", "d">>, <<"\\", "d", "t">>} THEN <<"SHOW TABLES">>
    ELSE IF startswith(query, <<"\\", "d", "+", " ">>)
        THEN <<"DESCRIBE TABLE ">> \o DropFirst(query, 4)
    ELSE IF query = <<"\\", "l">> THEN <<"SHOW DATABASES">>
    ELSE IF startswith(query, <<"\\", "c", " ">>) THEN <<"USE ">> \o DropFirst(query, 3)
    ELSE IF startswith(query, <<"\\", "p", "s">>)
        THEN <<"SELECT query_id, user, address, elapsed, ",
               IF server_version[1][3] > PsPatchThreshold THEN "read_rows" ELSE "rows_read",
               ", memory_usage FROM system.processes WHERE query_id != '">>
             \o FormatId(query_id) \o <<"'">>
    ELSE query

\* handle_query, lines 294-310: the statement sent for `query`
Rewrite(query, server_version, query_id) ==
    IF query \in {<<"\\", "d">>, <<"\\", "d", "t">>} THEN <<"SHOW TABLES">>
    ELSE IF startswith(query, <<"\\", "d", "+", " ">>)
        THEN <<"DESCRIBE TABLE ">> \o DropFirst(query, 4)
    ELSE IF query = <<"\\", "l">> THEN <<"SHOW DATABASES">>
    ELSE IF startswith(query, <<"\\", "c", " ">>) THEN <<"USE ">> \o DropFirst(query, 3)
    ELSE IF startswith(query, <<"\\", "p", "s">>)
        THEN <<"SELECT query_id, user, address, elapsed, ",
               IF server_version[1][3] >= PsPatchThreshold THEN "read_rows" ELSE "rows_read",
               ", memory_usage FROM system.processes WHERE query_id != '">>
             \o FormatId(query_id) \o <<"'">>
    ELSE query

KillPrefix == <<"\\", "k", "i", "l", "l", " ">>

\* client.kill_query(id): the request it makes
KillRequest(id) == Request("kill", id, None, None, FALSE, FALSE, None, "False")

\* What a call of client.kill_query does: it returns ("ok") or raises one of
\* the failures of the execution channel.
KillOutcomes == {"ok", "TimeoutError", "ConnectionError", "DBException"}

\* A handle_query without the \kill branch: the text goes to client.query.
handle_query_start_no_kill(query, dataArg, stream, verbose, query_id, compress, s, server_version, killOutcome) ==
    IF rstrip(query, ";") = <<>>
    THEN [kind |-> "return", exc |-> None, echoed |-> <<>>, sent |-> <<>>]
    ELSE IF lower(query) \in EXIT_COMMANDS
    THEN [kind |-> "raise", exc |-> Some("EOFError"), echoed |-> <<>>, sent |-> <<>>]
    ELSE IF lower(query) \in HelpCommands
    THEN [kind |-> "return", exc |-> None, echoed |-> HelpOutput(HelpRows), sent |-> <<>>]
    ELSE [kind |-> "call", exc |-> None, echoed |-> <<>>,
          sent |-> <<Request("query", Rewrite(query, server_version, query_id), s.format,
                             dataArg, stream, verbose, query_id, compress)>>]

\* handle_query, lines 257-327, up to the client.query call: it returns,
\* raises, or calls client.query with the request `request`.
handle_query_start(query, dataArg, stream, verbose, query_id, compress, s, server_version, killOutcome) ==
    IF rstrip(query, ";") = <<>>
    THEN [kind |-> "return", exc |-> None, echoed |-> <<>>, sent |-> <<>>]
    ELSE IF lower(query) \in EXIT_COMMANDS
    THEN [kind |-> "raise", exc |-> Some("EOFError"), echoed |-> <<>>, sent |-> <<>>]
    ELSE IF lower(query) \in HelpCommands
    THEN [kind |-> "return", exc |-> None, echoed |-> HelpOutput(HelpRows), sent |-> <<>>]
    ELSE IF startswith(query, KillPrefix)
    THEN [kind |-> IF killOutcome = "ok" THEN "return" ELSE "raise",
          exc |-> IF killOutcome = "ok" THEN None ELSE Some(killOutcome),
          echoed |-> <<>>, sent |-> <<KillRequest(DropFirst(query, 6))>>]
    ELSE [kind |-> "call", exc |-> None, echoed |-> <<>>,
          sent |-> <<Request("query", Rewrite(query, server_version, query_id), s.format,
                             dataArg, stream, verbose, query_id, compress)>>]

\* What client.query does with a statement: the exception it raises or the
\* response it returns.
Response(kind, stacktrace, rdata, format, message, rows, time_elapsed) ==
    [kind |-> kind, stacktrace |-> stacktrace, data |-> rdata, format |-> format,
     message |-> message, rows |-> rows, time_elapsed |-> time_elapsed]

QueryErrors ==
    {Response(k, None, <<>>, "", <<>>, None, None) : k \in {"TimeoutError", "ConnectionError", "DBException"}}
    \cup {Response("DBException", Some(<<"trace">>), <<>>, "", <<>>, None, None)}

QueryResponses ==
    {Response("ok", None, d, f, <<>>, Some(1), Some("0.001")) :
        d \in {<<>>, <<"line1", "line2">>}, f \in {"PrettyCompact", "TabSeparated"}}
    \cup {Response("ok", None, <<>>, "TabSeparated", <<"message">>, None, None),
          Response("ok", None, <<>>, "TabSeparated", <<>>, Some(2), None)}

QueryOutcomes == QueryErrors \cup QueryResponses

\* An output that looks at the pager option only, not at force_pager.
RenderPayload_option_only(req, resp, s, c, force_pager) ==
    IF req.stream
    THEN [i \in 1..Len(resp.data) |-> Out("print", <<resp.data[i]>>)]
    ELSE IF resp.data = <<>> THEN <<>>
    ELSE LET print_func == IF c.pager THEN "echo.pager" ELSE "print"
             should_highlight_output ==
                 /\ req.verbose
                 /\ s.highlight = Some(TRUE)
                 /\ s.highlight_output = Some(TRUE)
                 /\ resp.format \in PRETTY_FORMATS
         IN  IF should_highlight_output
             THEN <<Out(print_func, <<"pygments.highlight">> \o resp.data)>>
             ELSE <<Out(print_func, resp.data)>>

\* handle_query, lines 352-383: the payload's output
RenderPayload(req, resp, s, c, force_pager) ==
    IF req.stream
    THEN [i \in 1..Len(resp.data) |-> Out("print", <<resp.data[i]>>)]
    ELSE IF resp.data = <<>> THEN <<>>
    ELSE LET print_func == IF c.pager \/ force_pager THEN "echo.pager" ELSE "print"
             should_highlight_output ==
                 /\ req.verbose
                 /\ s.highlight = Some(TRUE)
                 /\ s.highlight_output = Some(TRUE)
                 /\ resp.format \in PRETTY_FORMATS
         IN  IF should_highlight_output
             THEN <<Out(print_func, <<"pygments.highlight">> \o resp.data)>>
             ELSE <<Out(print_func, resp.data)>>

\* handle_query, lines 328-402: what it echoes once client.query has raised or
\* returned
finish_output(req, resp, s, c, force_pager) ==
    CASE resp.kind = "TimeoutError" -> <<Out("echo.error", <<"Error: Connection timeout.">>)>>
      [] resp.kind = "ConnectionError" -> <<Out("echo.error", <<"Error: Failed to connect.">>)>>
      [] resp.kind = "DBException" ->
            <<Out("echo.error", <<"\nQuery:">>),
              Out("echo.error", req.statement),
              Out("echo.error", <<"\n\nReceived exception from server:">>),
              Out("echo.error", <<"e.error">>)>>
            \o (IF s.stacktrace /\ resp.stacktrace # None /\ resp.stacktrace # Some(<<>>)
                THEN <<Out("echo.print", <<"\nStack trace:">>),
                       Out("echo.print", resp.stacktrace[1])>>
                ELSE <<>>)
            \o <<Out("echo.print", <<"\nElapsed: {elapsed:.3f} sec.\n">>)>>
      [] OTHER ->
            <<Out("echo.print", <<>>)>>
            \o RenderPayload(req, resp, s, c, force_pager)
            \o (IF resp.message # <<>>
                THEN <<Out("echo.print", resp.message), Out("echo.print", <<>>)>>
                ELSE <<>>)
            \o <<Out("echo.success", <<"Ok. ">>)>>
            \o (IF resp.rows # None
                THEN <<Out("echo.print",
                           <<"{rows_count} row", IF resp.rows[1] # 1 THEN "s" ELSE "",
                             " in set.">>)>>
                ELSE <<>>)
            \o (IF c.timing /\ resp.time_elapsed # None
                THEN <<Out("echo.print", <<"Elapsed: {elapsed:.3f} sec.">>)>>
                ELSE <<>>)
            \o <<Out("echo.print", <<"\n">>)>>

\* A handle_query whose DBException clause does not return: the success
\* marker follows the report.
handle_query_finish_falls_through(req, resp, s, c, force_pager) ==
    [kind |-> "return", exc |-> None,
     echoed |-> finish_output(req, resp, s, c, force_pager)
                \o (IF resp.kind = "DBException"
                    THEN <<Out("echo.success", <<"Ok. ">>), Out("echo.print", <<"\n">>)>>
                    ELSE <<>>)]

\* A handle_query whose except clauses report the error and raise it again.
handle_query_finish_reraise(req, resp, s, c, force_pager) ==
    [kind |-> IF resp.kind = "ok" THEN "return" ELSE "raise",
     exc |-> IF resp.kind = "ok" THEN None ELSE Some(resp.kind),
     echoed |-> finish_output(req, resp, s, c, force_pager)]

\* handle_query, lines 328-402: every except clause returns, and so does the
\* end of the function
handle_query_finish(req, resp, s, c, force_pager) ==
    [kind |-> "return", exc |-> None,
     echoed |-> finish_output(req, resp, s, c, force_pager)]

\* ---------------------------------------------------------------- inputs
\* The characters of generated input texts: a statement separator, a blank,
\* the backslash and "p" of the pager marker ("p" is also an ordinary
\* statement), and the exit keyword "q".
Alphabet == {";", " ", "\\", "p", "q"}

GeneratedTexts == UNION {[1..n -> Alphabet] : n \in 0..MaxLen}

\* Texts of the custom commands, of an exit keyword in capitals and of a unit
\* whose exit keyword stands between two statements.
CommandTexts ==
    {<<"Q">>, <<"Q", "u", "i", "t">>, <<"p", ";", "q", ";", "p">>,
     <<"h", "e", "l", "p">>, <<"\\", "?">>,
     <<"\\", "d">>, <<"\\", "d", "t">>, <<"\\", "d", "+", " ", "p">>,
     <<"\\", "l">>, <<"\\", "c", " ", "p">>, <<"\\", "p", "s">>,
     <<"\\", "k", "i", "l", "l", " ", "1">>,
     <<"p", ";", "\\", "k", "i", "l", "l", " ", "1", ";", "p">>,
     <<"p", ";", "p", "\\", "p">>,
     <<"p", ";", "\\", "p", "s">>}

InputTexts == GeneratedTexts \cup CommandTexts

\* Names of data items: standard input, a gzip file, a plain file, and a
\* file whose whole name is ".gz".
FileNames == {<<"<", "s", ">">>, <<"a", ".", "g", "z">>, <<"a", ".", "c">>, <<".", "g", "z">>}

\* os.path.splitext(name)[1]: from the last dot on, unless only dots precede it
splitext_ext(name) ==
    LET dots == {i \in 1..Len(name) : name[i] = "."}
        lastDot == IF dots = {} THEN 0 ELSE CHOOSE i \in dots : \A j \in dots : j <= i
    IN  IF lastDot # 0 /\ \E i \in 1..(lastDot - 1) : name[i] # "."
        THEN SubSeq(name, lastDot, Len(name))
        ELSE <<>>

\* run, line 189
compress_of(name) == IF splitext_ext(name) = <<".", "g", "z">> THEN "gzip" ELSE "False"

\* A run whose first test forgets the query text.
SelectMode_batch_first(d, q) ==
    IF d # 0 THEN "batch"
    ELSE IF q # None THEN "oneshot"
    ELSE "interactive"

\* run, lines 166, 178, 185 and 200: the run mode, from the data items given
\* (their number) and the query text (None without -q)
SelectMode(d, q) ==
    IF d # 0 /\ q = None THEN "batch"
    ELSE IF d = 0 /\ q # None THEN "oneshot"
    ELSE IF d # 0 /\ q # None THEN "ingest"
    ELSE "interactive"

\* ----------------------------------------------------------------- state
VARIABLES
    pc,              \* where run() is
    last,            \* the step just taken and the handle_query call it made
    cli,             \* the command line's values, as given to CLI()
    config_file,     \* what read_config() returns
    self,            \* the CLI object's configuration attributes
    config,          \* self.config
    probe,           \* what the server does with the version probe
    query,           \* run's query argument
    data,            \* run's data argument: the items not yet iterated over
    mode,            \* the run mode entered
    server_version,  \* self.server_version
    query_ids,       \* self.query_ids
    echo_verbose,    \* self.echo.verbose
    units,           \* handle_input calls so far
    unit,            \* the handle_input call in progress
    stmts,           \* its statements not yet handled
    inflight,        \* the client.query call in progress
    echoed,          \* the step's calls of Echo methods and print
    sent,            \* the step's requests to the client
    refreshed,       \* the step's refresh_metadata calls
    exc              \* the exception that left run()

vars == <<pc, last, cli, config_file, self, config, probe, query, data, mode,
          server_version, query_ids, echo_verbose, units, unit, stmts,
          inflight, echoed, sent, refreshed, exc>>

environment == <<cli, config_file, probe>>

\* The step taken: the action; for a handle_query call its query, the
\* statement's position in the input unit (0 outside one), the force_pager
\* argument and the unit's input; for a client.query call that ended, how
\* (the exception's name or "ok") and with what.
Last(act, q, index, force_pager, input, outcome) ==
    [act |-> act, query |-> q, index |-> index, force_pager |-> force_pager,
     input |-> input, outcome |-> outcome, response |-> None]

Idle(act) == Last(act, None, 0, FALSE, None, "")

\* The state after CLI(...) with command line a, before run().
Constructed(a, c, p) ==
    /\ pc = "start"
    /\ last = Idle("CLI")
    /\ cli = a
    /\ config_file = c
    /\ probe = p
    /\ self = CLI_init(a)
    /\ config = None
    /\ query = None
    /\ data = 0
    /\ mode = "none"
    /\ server_version = None
    /\ query_ids = <<>>
    /\ echo_verbose = TRUE
    /\ units = 0
    /\ unit = None
    /\ stmts = <<>>
    /\ inflight = None
    /\ echoed = <<>>
    /\ sent = <<>>
    /\ refreshed = 0
    /\ exc = None

Init == \E a \in MainArgs, c \in MainConfigs, p \in Probes : Constructed(a, c, p)

\* ------------------------------------------------------------------- run
\* run, lines 143-150: load_config, the format of non-interactive runs, the
\* version banner
Run ==
    /\ pc = "start"
    /\ \E q \in {None} \cup {Some(t) : t \in InputTexts}, d \in 0..MaxFiles :
        LET loaded == load_config(self, config_file)
            piped == d # 0 \/ q # None
        IN  /\ query' = q
            /\ data' = d
            /\ self' = IF piped THEN [loaded EXCEPT !.format = loaded.format_stdin] ELSE loaded
            /\ echo_verbose' = ~piped
            /\ echoed' = IF piped THEN <<>>
                         ELSE <<Out("print", <<"clickhouse-cli version: {version}">>)>>
    /\ config' = Some(config_file)
    /\ pc' = "loaded"
    /\ last' = Idle("run")
    /\ sent' = <<>>
    /\ refreshed' = 0
    /\ UNCHANGED <<environment, mode, server_version, query_ids, units, unit,
                   stmts, inflight, exc>>

\* run, lines 152-223: connect; when it fails, return; else enter the run mode
\* (the interactive mode refreshes the completer's metadata once)
Connect ==
    /\ pc = "loaded"
    /\ LET c == connect(self, probe)
           m == SelectMode(data, query)
       IN  /\ server_version' = c.server_version
           /\ echoed' = c.echoed
           /\ sent' = <<ProbeRequest>>
           /\ exc' = c.exc
           /\ mode' = IF c.ret = "True" THEN m ELSE "none"
           /\ pc' = CASE c.ret = "raise" -> "crashed"
                      [] c.ret = "False" -> "done"
                      [] c.ret = "True" /\ m = "interactive" -> "loop"
                      [] OTHER -> m
           /\ refreshed' = IF c.ret = "True" /\ m = "interactive" THEN 1 ELSE 0
    /\ last' = Idle("connect")
    /\ UNCHANGED <<environment, self, config, query, data, query_ids, echo_verbose,
                   units, unit, stmts, inflight>>


\* ------------------------------------------------- control after a call
Bye == Out("echo.success", <<"Bye.">>)

Control(p, ids, u, st, e, r, tail) ==
    [pc |-> p, query_ids |-> ids, unit |-> u, stmts |-> st, exc |-> e,
     refreshed |-> r, tail |-> tail]

\* An interactive loop without the finally clause.
UnitEnd_keep(m, ids, u, restData) ==
    LET r == IF u[1].refresh_metadata /\ u[1].nonempty THEN 1 ELSE 0
    IN  IF m = "interactive"
        THEN Control("loop", ids, None, <<>>, None, r, <<>>)
        ELSE Control(IF restData = 0 THEN "done" ELSE "batch", ids, None, <<>>, None, r, <<>>)

\* handle_input, lines 254-255, and what its caller does next: in the
\* interactive loop (lines 236-237) the finally clause empties query_ids and
\* the loop reads again; in batch mode (lines 169-176) the for loop goes on
\* to the next item or run returns.
UnitEnd(m, ids, u, restData) ==
    LET r == IF u[1].refresh_metadata /\ u[1].nonempty THEN 1 ELSE 0
    IN  IF m = "interactive"
        THEN Control("loop", <<>>, None, <<>>, None, r, <<>>)
        ELSE Control(IF restData = 0 THEN "done" ELSE "batch", ids, None, <<>>, None, r, <<>>)

\* A run that swallows whatever is raised outside the interactive loop.
Raised_swallowed(m, e, ids) ==
    IF m = "interactive"
    THEN IF e = Some("EOFError")
         THEN Control("done", <<>>, None, <<>>, None, 0, <<Bye>>)
         ELSE Control("crashed", <<>>, None, <<>>, e, 0, <<>>)
    ELSE Control("done", ids, None, <<>>, None, 0, <<>>)

\* An exception leaving handle_query: in the interactive loop (lines 225-239)
\* the finally clause empties query_ids and EOFError ends the loop with
\* "Bye."; nothing else in run() catches it.
Raised(m, e, ids) ==
    IF m = "interactive"
    THEN IF e = Some("EOFError")
         THEN Control("done", <<>>, None, <<>>, None, 0, <<Bye>>)
         ELSE Control("crashed", <<>>, None, <<>>, e, 0, <<>>)
    ELSE Control("crashed", ids, None, <<>>, e, 0, <<>>)

\* Where control is once handle_query has returned ("return"), raised
\* ("raise") or called client.query ("call"), with the statements and data
\* items still to come: the for loops of handle_input (line 249) and of run
\* (lines 169 and 188), and the return of run (line 180).
After(kind, e, m, ids, u, restStmts, restData) ==
    CASE kind = "call" -> Control("inflight", ids, u, restStmts, None, 0, <<>>)
      [] kind = "raise" -> Raised(m, e, ids)
      [] kind = "return" /\ m \in {"interactive", "batch"} /\ restStmts # <<>> ->
            Control("unit", ids, u, restStmts, None, 0, <<>>)
      [] kind = "return" /\ m \in {"interactive", "batch"} /\ restStmts = <<>> ->
            UnitEnd(m, ids, u, restData)
      [] kind = "return" /\ m = "ingest" /\ restData # 0 ->
            Control("ingest", ids, None, <<>>, None, 0, <<>>)
      [] OTHER -> Control("done", ids, None, <<>>, None, 0, <<>>)

Goto(a) ==
    /\ pc' = a.pc
    /\ query_ids' = a.query_ids
    /\ unit' = a.unit
    /\ stmts' = a.stmts
    /\ exc' = a.exc
    /\ refreshed' = a.refreshed

\* ----------------------------------------------------------- handle_input
\* handle_input, lines 242-249: the marker, the reset of query_ids, the split
handle_input(input_data, verbose, refresh_metadata, restData) ==
    LET stripped == strip_marker(input_data)
        u == Some([force_pager |-> force_pager_of(input_data), verbose |-> verbose,
                   refresh_metadata |-> refresh_metadata, nonempty |-> stripped # <<>>,
                   input |-> input_data])
        a == After("return", None, mode, <<>>, u, sqlparse_split(stripped), restData)
    IN  /\ Goto(a)
        /\ echoed' = a.tail
        /\ sent' = <<>>
        /\ inflight' = None
        /\ units' = units + 1
        /\ last' = Last("handle_input", None, 0, FALSE, Some(input_data), "")

\* run, lines 226-228: the loop enters the line editor
Prompt ==
    /\ pc = "loop"
    /\ pc' = "prompt"
    /\ last' = Idle("prompt")
    /\ echoed' = <<>>
    /\ sent' = <<>>
    /\ refreshed' = 0
    /\ UNCHANGED <<environment, self, config, query, data, mode, server_version,
                   query_ids, echo_verbose, units, unit, stmts, inflight, exc>>

\* run, lines 228-229: the line editor returns an input
ReadInput ==
    /\ pc = "prompt"
    /\ units < MaxUnits
    /\ \E text \in InputTexts : handle_input(text, TRUE, TRUE, data)
    /\ UNCHANGED <<environment, self, config, query, data, mode, server_version,
                   echo_verbose>>

\* run, line 169: the loop takes the next data item
NextItem ==
    /\ pc = "batch"
    /\ pc' = "read"
    /\ data' = data - 1
    /\ last' = Idle("next")
    /\ echoed' = <<>>
    /\ sent' = <<>>
    /\ refreshed' = 0
    /\ UNCHANGED <<environment, self, config, query, mode, server_version,
                   query_ids, echo_verbose, units, unit, stmts, inflight, exc>>

\* run, lines 170-174: the item is read and handled
BatchNext ==
    /\ pc = "read"
    /\ \E text \in InputTexts : handle_input(text, FALSE, FALSE, data)
    /\ UNCHANGED <<environment, self, config, query, data, mode, server_version,
                   echo_verbose>>

\* run, lines 228 and 238-239: the line editor raises EOFError
PromptEOF ==
    /\ pc = "prompt"
    /\ Goto(Raised(mode, Some("EOFError"), query_ids))
    /\ echoed' = <<Bye>>
    /\ sent' = <<>>
    /\ inflight' = None
    /\ last' = Idle("eof")
    /\ UNCHANGED <<environment, self, config, query, data, mode, server_version,
                   echo_verbose, units>>

\* ----------------------------------------------------------- handle_query
\* One call of handle_query up to its return, its raise or its client.query
\* call, and where control goes from there.
handle_query(act, q, dataArg, stream, verbose, query_id, compress, force_pager, ids, u, restStmts, restData) ==
    \E killOutcome \in IF startswith(q, KillPrefix) THEN KillOutcomes ELSE {"ok"} :
        LET r == handle_query_start(q, dataArg, stream, verbose, query_id, compress,
                                    self, server_version, killOutcome)
            a == After(r.kind, r.exc, mode, ids, u, restStmts, restData)
        IN  /\ Goto(a)
            /\ echoed' = r.echoed \o a.tail
            /\ sent' = r.sent
            /\ inflight' = IF r.kind = "call"
                           THEN Some([req |-> r.sent[1], force_pager |-> force_pager])
                           ELSE None
            /\ last' = Last(act, Some(q), Len(ids), force_pager,
                            IF u = None THEN None ELSE Some(u[1].input), "")

\* handle_input, lines 249-252: the next statement gets its identifier and is
\* handled
Step ==
    /\ pc = "unit"
    /\ LET query_id == uuid4(units, Len(query_ids) + 1)
       IN  handle_query("statement", Head(stmts), None, FALSE, unit[1].verbose,
                        Some(query_id), "False", unit[1].force_pager,
                        Append(query_ids, query_id), unit, Tail(stmts), data)
    /\ UNCHANGED <<environment, self, config, query, data, mode, server_version,
                   echo_verbose, units>>

\* run, lines 178-183: the query text is handled once, streaming
OneShot ==
    /\ pc = "oneshot"
    /\ handle_query("oneshot", query[1], None, TRUE, FALSE, None, "False", FALSE,
                    query_ids, None, <<>>, 0)
    /\ UNCHANGED <<environment, self, config, query, data, mode, server_version,
                   echo_verbose, units>>

\* run, lines 188-196: the query text is handled with the next data item
IngestNext ==
    /\ pc = "ingest"
    /\ \E name \in FileNames :
        handle_query("ingest", query[1], Some(name), TRUE, FALSE, None,
                     compress_of(name), FALSE, query_ids, None, <<>>, data - 1)
    /\ data' = data - 1
    /\ UNCHANGED <<environment, self, config, query, mode, server_version,
                   echo_verbose, units>>

\* handle_query, lines 328-402: client.query raises or returns
Respond ==
    /\ pc = "inflight"
    /\ \E resp \in QueryOutcomes :
        LET r == handle_query_finish(inflight[1].req, resp, self, config[1],
                                     inflight[1].force_pager)
            a == After(r.kind, r.exc, mode, query_ids, unit, stmts, data)
        IN  /\ Goto(a)
            /\ echoed' = r.echoed \o a.tail
            /\ last' = [last EXCEPT !.act = "respond", !.outcome = resp.kind,
                                     !.response = Some(resp)]
    /\ sent' = <<>>
    /\ inflight' = None
    /\ UNCHANGED <<environment, self, config, query, data, mode, server_version,
                   echo_verbose, units>>

\* ---------------------------------------------------------------- interrupt
\* A handler that cancels the newest identifier only.
interrupt_handler_newest_only(ids, failAt, e) ==
    IF failAt = 0
    THEN [sent |-> IF ids = <<>> THEN <<>> ELSE <<KillRequest(ids[Len(ids)])>>,
          echoed |-> <<Out("echo.error", <<"\nQuery was terminated.">>)>>,
          control |-> Control("loop", <<>>, None, <<>>, None, 0, <<>>)]
    ELSE [sent |-> <<KillRequest(ids[Len(ids)])>>,
          echoed |-> <<>>,
          control |-> Control("crashed", <<>>, None, <<>>, Some(e), 0, <<>>)]

\* run, lines 230-237: kill_query for each tracked identifier in turn, then
\* the message; the finally clause empties query_ids.  failAt is the kill_query
\* call that raises e (0: none does); the exception leaves run().
interrupt_handler(ids, failAt, e) ==
    IF failAt = 0
    THEN [sent |-> [i \in 1..Len(ids) |-> KillRequest(ids[i])],
          echoed |-> <<Out("echo.error", <<"\nQuery was terminated.">>)>>,
          control |-> Control("loop", <<>>, None, <<>>, None, 0, <<>>)]
    ELSE [sent |-> [i \in 1..failAt |-> KillRequest(ids[i])],
          echoed |-> <<>>,
          control |-> Control("crashed", <<>>, None, <<>>, Some(e), 0, <<>>)]

\* KeyboardInterrupt at the prompt, between two statements or during
\* client.query: handled in the interactive loop, not caught in the other modes
Interrupt ==
    /\ pc \in {"prompt", "unit", "inflight"}
    /\ IF mode = "interactive"
       THEN \E failAt \in 0..Len(query_ids), e \in KillOutcomes \ {"ok"} :
                LET h == interrupt_handler(query_ids, failAt, e)
                IN  /\ Goto(h.control)
                    /\ echoed' = h.echoed
                    /\ sent' = h.sent
       ELSE /\ Goto(Raised(mode, Some("KeyboardInterrupt"), query_ids))
            /\ echoed' = <<>>
            /\ sent' = <<>>
    /\ inflight' = None
    /\ last' = Idle("interrupt")
    /\ UNCHANGED <<environment, self, config, query, data, mode, server_version,
                   echo_verbose, units>>

\* ------------------------------------------------------------ specification
Next ==
    \/ Run
    \/ Connect
    \/ Prompt
    \/ ReadInput
    \/ NextItem
    \/ BatchNext
    \/ PromptEOF
    \/ Step
    \/ OneShot
    \/ IngestNext
    \/ Respond
    \/ Interrupt

Spec == Init /\ [][Next]_vars

\* load_config alone, over the command lines and configuration files
LoadConfig ==
    /\ pc = "start"
    /\ self' = load_config(self, config_file)
    /\ config' = Some(config_file)
    /\ pc' = "loaded"
    /\ last' = Idle("load_config")
    /\ UNCHANGED <<environment, query, data, mode, server_version, query_ids,
                   echo_verbose, units, unit, stmts, inflight, echoed, sent,
                   refreshed, exc>>

InitConfig ==
    \E a \in CliArgs, c \in ConfigFiles : Constructed(a, c, ProbeError("TimeoutError", None))

SpecConfig == InitConfig /\ [][LoadConfig]_vars


\* handle_query's output alone, over the settings it reads: the command
\* line's stacktrace flag and the configuration file's pager, highlight,
\* highlight_output and timing options.
OutputArgs == {[a EXCEPT !.stacktrace = b] : a \in MainArgs, b \in BOOLEAN}

OutputConfigs ==
    {[c EXCEPT !.pager = p, !.highlight = h, !.highlight_output = o, !.timing = t] :
        c \in MainConfigs, p \in BOOLEAN, h \in BOOLEAN, o \in BOOLEAN, t \in BOOLEAN}

\* A run with the statement `p` in flight: the only statement of an
\* interactive or batch unit (with or without the pager marker), or the
\* query text of a one-shot run.
InFlight(a, c, m, fp) ==
    LET loaded == load_config(CLI_init(a), c)
        s == IF m = "interactive" THEN loaded
             ELSE [loaded EXCEPT !.format = loaded.format_stdin]
        input == IF fp THEN <<"p", "\\", "p">> ELSE <<"p">>
        inUnit == m # "oneshot"
        verbose == m = "interactive"
        req == Request("query", <<"p">>, s.format, None, ~inUnit, verbose,
                       IF inUnit THEN Some(uuid4(1, 1)) ELSE None, "False")
    IN  /\ pc = "inflight"
        /\ last = Last(IF inUnit THEN "statement" ELSE "oneshot", Some(<<"p">>),
                       IF inUnit THEN 1 ELSE 0, fp,
                       IF inUnit THEN Some(input) ELSE None, "")
        /\ cli = a
        /\ config_file = c
        /\ probe = ProbeData(<<"1", ".", "1", ".", "5", "4", "1", "1", "5", "\n">>)
        /\ self = s
        /\ config = Some(c)
        /\ query = IF inUnit THEN None ELSE Some(<<"p">>)
        /\ data = 0
        /\ mode = m
        /\ server_version = Some(<<1, 1, 54115>>)
        /\ query_ids = IF inUnit THEN <<uuid4(1, 1)>> ELSE <<>>
        /\ echo_verbose = verbose
        /\ units = IF inUnit THEN 1 ELSE 0
        /\ unit = IF inUnit
                  THEN Some([force_pager |-> fp, verbose |-> verbose,
                             refresh_metadata |-> verbose, nonempty |-> TRUE,
                             input |-> input])
                  ELSE None
        /\ stmts = <<>>
        /\ inflight = Some([req |-> req, force_pager |-> fp])
        /\ echoed = <<>>
        /\ sent = <<req>>
        /\ refreshed = 0
        /\ exc = None

InitOutput ==
    \E a \in OutputArgs, c \in OutputConfigs,
       m \in {"interactive", "batch", "oneshot"}, fp \in BOOLEAN :
        /\ (m = "oneshot" => ~fp)
        /\ InFlight(a, c, m, fp)

SpecOutput == InitOutput /\ [][Respond]_vars

\* ------------------------------------------------------------------ claims
\* The statements of an input unit, as the claims state them: the pager
\* marker, when the input ends with it, is cut off and the rest is split.
UnitStatements(input) ==
    sqlparse_split(IF endswith(input, <<"\\", "p">>)
                   THEN SubSeq(input, 1, Len(input) - 2)
                   ELSE input)

ErrorKinds == {"TimeoutError", "ConnectionError", "DBException"}

HandleQueryActs == {"statement", "oneshot", "ingest"}

\* C1: an interrupt in the interactive loop while N identifiers are tracked
\* sends exactly N kill requests, one per tracked identifier in order, and
\* leaves the tracked set empty, whatever the kill requests do.
C1_InterruptCancelsAll ==
    [][(mode = "interactive" /\ last'.act = "interrupt")
        => /\ sent' = [i \in 1..Len(query_ids) |-> KillRequest(query_ids[i])]
           /\ query_ids' = <<>>]_vars

\* C2: when client.query ends in a timeout, a connection failure or a server
\* exception for statement i of an input unit, the error is echoed, no
\* exception leaves handle_query, and the unit goes on with exactly the
\* statements i+1..n; every statement handled is the next one of its unit.
C2_ErrorDoesNotBlockSiblings ==
    /\ (last.act = "respond" /\ last.outcome \in ErrorKinds /\ last.input # None)
        => LET all == UnitStatements(last.input[1])
           IN  /\ \E i \in 1..Len(echoed) :
                    /\ echoed[i].fn = "echo.error"
                    /\ echoed[i].text = CASE last.outcome = "TimeoutError" -> <<"Error: Connection timeout.">>
                                          [] last.outcome = "ConnectionError" -> <<"Error: Failed to connect.">>
                                          [] OTHER -> <<"e.error">>
               /\ exc = None
               /\ pc # "crashed"
               /\ IF last.index < Len(all)
                  THEN pc = "unit" /\ stmts = SubSeq(all, last.index + 1, Len(all))
                  ELSE pc \in {"loop", "batch", "done"}
    /\ (last.act = "statement")
        => /\ last.index \in 1..Len(UnitStatements(last.input[1]))
           /\ last.query = Some(UnitStatements(last.input[1])[last.index])

\* C2's case: a statement timed out and later statements of its unit wait.
C2_Witness ==
    /\ last.act = "respond"
    /\ last.outcome = "TimeoutError"
    /\ last.index = 1
    /\ pc = "unit"
    /\ Len(stmts) = 2

\* C3 as stated: whenever no input unit is being processed (and nothing has
\* crashed) the tracked set is empty, in the interactive and in the batch mode.
C3_TrackedEmptyBetweenUnits ==
    (unit = None /\ pc # "crashed") => query_ids = <<>>

\* C3 amended: while a unit is processed the tracked set holds exactly the
\* identifiers of the unit's statements begun so far (so it is empty when the
\* unit starts); the interactive loop empties it when the unit is over; the
\* batch mode keeps the finished unit's identifiers.
C3_TrackedPerUnit ==
    /\ (unit # None)
        => LET all == UnitStatements(unit[1].input)
           IN  /\ Len(stmts) <= Len(all)
               /\ query_ids = [i \in 1..(Len(all) - Len(stmts)) |-> uuid4(units, i)]
    /\ (mode = "interactive" /\ unit = None) => query_ids = <<>>
    /\ (mode = "batch" /\ unit = None /\ pc \in {"batch", "done"}
            /\ last.act \in {"handle_input", "statement", "respond"})
        => query_ids = [i \in 1..Len(UnitStatements(last.input[1])) |-> uuid4(units, i)]

\* C3's case: the interactive loop is back at its top after a unit of two
\* statements, the second of which was answered.
C3_Witness ==
    /\ mode = "interactive"
    /\ pc = "loop"
    /\ last.act = "respond"
    /\ last.index = 2
    /\ query_ids = <<>>

\* C4: a statement that is an exit keyword ends the run cleanly in every mode:
\* nothing is sent for it and no exception leaves run().
C4_ExitTerminatesCleanly ==
    (last.act \in HandleQueryActs /\ lower(last.query[1]) \in EXIT_COMMANDS)
        => /\ pc = "done"
           /\ exc = None
           /\ sent = <<>>
           /\ inflight = None

\* The value load_config resolves: the command line's when given, else the
\* file's when it has one, else the default.
Resolved(given, file, default) ==
    IF given # None THEN given ELSE IF file # "" THEN Some(file) ELSE Some(default)

\* C5: after load_config every value with a command-line option is the
\* command line's when supplied, else the configuration file's, else the
\* default; the same holds key by key for the settings.
C5_CliOverFileOverDefault ==
    (pc = "loaded")
        => /\ self.host = Resolved(cli.host, config_file.host, "127.0.0.1")
           /\ self.port = Resolved(cli.port, config_file.port, "8123")
           /\ self.user = Resolved(cli.user, config_file.user, "default")
           /\ self.password = Resolved(cli.password, config_file.password, "")
           /\ self.database = Resolved(cli.database, config_file.db, "default")
           /\ self.format = Resolved(cli.format, config_file.format, "")
           /\ self.format_stdin = Resolved(cli.format_stdin, config_file.format_stdin, "")
           /\ self.multiline = (IF cli.multiline THEN TRUE ELSE config_file.multiline)
           /\ DOMAIN self.settings = (DOMAIN cli.settings) \cup (DOMAIN config_file.settings)
           /\ \A k \in DOMAIN self.settings :
                self.settings[k] = IF k \in DOMAIN cli.settings
                                   THEN cli.settings[k] ELSE config_file.settings[k]

\* C6: when the version probe ends in a timeout, a connection failure or a
\* server exception, the error is echoed, the connect step is the run's last:
\* run has returned, no mode was entered, the probe is the only request made.
C6_FailedProbeEndsRun ==
    (probe.kind \in ErrorKinds /\ pc \notin {"start", "loaded"})
        => /\ pc = "done"
           /\ last.act = "connect"
           /\ exc = None
           /\ mode = "none"
           /\ server_version = None
           /\ sent = <<ProbeRequest>>
           /\ inflight = None
           /\ units = 0
           /\ refreshed = 0
           /\ query_ids = <<>>
           /\ echoed[2] = Out("echo.error",
                CASE probe.kind = "TimeoutError" -> <<"Error: Connection timeout.">>
                  [] probe.kind = "ConnectionError" -> <<"Error: Failed to connect.">>
                  [] OTHER -> <<"Error:">>)

\* C6's case: the server answered the probe with an exception and run is over.
C6_Witness == probe.kind = "DBException" /\ pc = "done" /\ query # None /\ data > 0

\* A version response that parses: a newline at the end and, before it, three
\* integers separated by dots.
WellFormedVersion(text) ==
    /\ endswith(text, <<"\n">>)
    /\ LET parts == SplitOn(strip(text), ".", <<>>)
       IN  Len(parts) = 3 /\ \A i \in 1..3 : IntOk(parts[i])

\* C7: a malformed version response is handled in connect: an error is
\* echoed, connect returns False, the server version stays unset and no
\* exception leaves connect.
C7_MalformedProbeHandled ==
    (probe.kind = "data" /\ ~WellFormedVersion(probe.data) /\ pc \notin {"start", "loaded"})
        => /\ pc = "done"
           /\ exc = None
           /\ server_version = None
           /\ \E i \in 1..Len(echoed) : echoed[i].fn = "echo.error"

\* C8: after a successful connect exactly one mode is entered, the one that
\* (data present, query given) selects, and control stays in it; the one-shot
\* mode makes one streaming call without payload; the ingestion mode handles
\* the query text with the next data item as payload, streaming, compressed
\* with gzip exactly when the item's name has the extension .gz.
C8_OneRunMode ==
    /\ (last.act = "connect" /\ pc \notin {"done", "crashed"})
        => mode = CASE data # 0 /\ query = None -> "batch"
                    [] data = 0 /\ query # None -> "oneshot"
                    [] data # 0 /\ query # None -> "ingest"
                    [] OTHER -> "interactive"
    /\ (mode = "none") => pc \in {"start", "loaded", "done", "crashed"}
    /\ (mode = "batch") => query = None /\ pc \in {"batch", "read", "unit", "inflight", "done", "crashed"}
    /\ (mode = "oneshot") => query # None /\ data = 0 /\ pc \in {"oneshot", "inflight", "done", "crashed"}
    /\ (mode = "ingest") => query # None /\ pc \in {"ingest", "inflight", "done", "crashed"}
    /\ (mode = "interactive")
        => query = None /\ data = 0 /\ pc \in {"loop", "prompt", "unit", "inflight", "done", "crashed"}
    /\ (last.act \in HandleQueryActs)
        => last.act = CASE mode = "oneshot" -> "oneshot" [] mode = "ingest" -> "ingest"
                        [] OTHER -> "statement"
    /\ (last.act = "oneshot")
        => /\ last.query = query
           /\ pc \in {"inflight", "done", "crashed"}
           /\ pc = "inflight" => /\ inflight[1].req.stream
                                 /\ inflight[1].req.data = None
                                 /\ inflight[1].req.compress = "False"
    /\ (mode = "oneshot" /\ last.act = "respond") => pc = "done"
    /\ (last.act = "ingest")
        => /\ last.query = query
           /\ pc = "inflight"
                => LET name == inflight[1].req.data[1]
                   IN  /\ inflight[1].req.stream
                       /\ name \in FileNames
                       /\ (inflight[1].req.compress = "gzip")
                            <=> (/\ endswith(name, <<".", "g", "z">>)
                                 /\ \E i \in 1..(Len(name) - 3) : name[i] # ".")
                       /\ inflight[1].req.compress \in {"gzip", "False"}

\* C8's case: the ingestion mode has sent the query with a gzip file.
C8_Witness ==
    /\ mode = "ingest"
    /\ pc = "inflight"
    /\ inflight[1].req.compress = "gzip"
    /\ data = 1

\* C9: handle_query with a statement that is ";", empty once its trailing
\* semicolons are cut, or whitespace only, sends nothing and echoes nothing.
C9_BlankStatementIsNoOp ==
    (last.act \in HandleQueryActs
        /\ (\/ last.query[1] = <<";">>
            \/ rstrip(last.query[1], ";") = <<>>
            \/ \A i \in 1..Len(last.query[1]) : last.query[1][i] \in Whitespace))
        => /\ sent = <<>>
           /\ inflight = None
           /\ echoed = <<>>
           /\ exc = None

\* C10: the statements of an input unit are those of its input without a
\* trailing pager marker, and each is handled with force_pager set exactly
\* when the input ended with the marker.
C10_PagerMarker ==
    /\ (last.act = "handle_input" /\ pc = "unit")
        => /\ stmts = UnitStatements(last.input[1])
           /\ unit[1].force_pager = endswith(last.input[1], <<"\\", "p">>)
    /\ (last.act = "statement")
        => /\ last.force_pager = endswith(last.input[1], <<"\\", "p">>)
           /\ last.query = Some(UnitStatements(last.input[1])[last.index])
    /\ (pc = "inflight" /\ unit # None)
        => inflight[1].force_pager = endswith(unit[1].input, <<"\\", "p">>)
    /\ (last.act \in {"oneshot", "ingest"}) => ~last.force_pager

\* C10's case: the second statement of a unit that ended with the marker is
\* in flight with the flag set.
C10_Witness ==
    /\ last.act = "statement"
    /\ last.index = 2
    /\ last.force_pager
    /\ pc = "inflight"
    /\ inflight[1].force_pager

\* Most statements a unit of the model has (the longest command text).
MaxStatements == 3

C12_RefreshAfterNonEmptyUnit ==
    /\ (mode = "interactive" /\ pc = "loop"
            /\ last.act \in {"handle_input", "statement", "respond"})
        => refreshed = (IF last.input[1] # <<>> THEN 1 ELSE 0)
    /\ (mode \in {"batch", "oneshot", "ingest"}) => refreshed = 0

\* The commands of handle_query, by the statement's text.
IsNoOp(q) == rstrip(q, ";") = <<>>

IsExit(q) == ~IsNoOp(q) /\ lower(q) \in {<<"q">>, <<"q", "u", "i", "t">>, <<"e", "x", "i", "t">>}

IsHelp(q) == lower(q) \in {<<"\\", "?">>, <<"h", "e", "l", "p">>}

IsKill(q) == startswith(q, <<"\\", "k", "i", "l", "l", " ">>)

\* C13: a `\kill <id>` statement makes exactly one kill request, for <id>,
\* calls no client.query, echoes nothing and leaves the tracked identifiers
\* as they were when it was handled; no other statement makes a kill request,
\* and the help command and the no-op make no request at all.
C13_OnlyKillTouchesNetwork ==
    (last.act \in HandleQueryActs)
        => LET q == last.query[1]
           IN  IF IsKill(q)
               THEN /\ Len(sent) = 1
                    /\ sent[1].op = "kill"
                    /\ sent[1].statement = SubSeq(q, 7, Len(q))
                    /\ inflight = None
                    /\ echoed = <<>>
                    /\ (exc = None /\ (unit # None \/ mode = "batch"))
                        => query_ids = [i \in 1..last.index |-> uuid4(units, i)]
               ELSE /\ \A i \in 1..Len(sent) : sent[i].op # "kill"
                    /\ (IsNoOp(q) \/ IsHelp(q)) => (sent = <<>> /\ inflight = None)

\* C13's case: `\kill 1;`, the second statement of the unit `p;\kill 1;p`,
\* has been handled and the third one waits.
C13_Witness ==
    /\ last.act = "statement"
    /\ last.query = Some(<<"\\", "k", "i", "l", "l", " ", "1", ";">>)
    /\ last.index = 2
    /\ pc = "unit"
    /\ Len(stmts) = 1
    /\ Len(sent) = 1
    /\ sent[1].statement = <<"1", ";">>
    /\ Len(query_ids) = 2

IsPs(q) == startswith(q, <<"\\", "p", "s">>)

\* C14: a `\ps` statement goes to client.query as the process-list query whose
\* column is read_rows when the server's patch version is at least 54115 and
\* rows_read below it, and whose filter names the identifier of this very
\* statement, the one tracked at the statement's position.
C14_ProcessListQuery ==
    (last.act = "statement" /\ IsPs(last.query[1]))
        => /\ pc = "inflight"
           /\ Len(sent) = 1
           /\ sent[1] = inflight[1].req
           /\ sent[1].op = "query"
           /\ sent[1].query_id = Some(query_ids[last.index])
           /\ sent[1].statement =
                <<"SELECT query_id, user, address, elapsed, ",
                  IF server_version[1][3] >= 54115 THEN "read_rows" ELSE "rows_read",
                  ", memory_usage FROM system.processes WHERE query_id != '">>
                \o query_ids[last.index] \o <<"'">>

\* C14's case: `\ps` is the second statement of a unit and the server is of
\* patch version 54115.
C14_Witness ==
    /\ last.act = "statement"
    /\ last.query = Some(<<"\\", "p", "s">>)
    /\ last.index = 2
    /\ server_version = Some(<<1, 1, 54115>>)
    /\ pc = "inflight"
    /\ inflight[1].req.statement[2] = "read_rows"

\* The statement the rewriting rules give for the text q.
Rewritten(q) ==
    CASE q = <<"\\", "d">> \/ q = <<"\\", "d", "t">> -> <<"SHOW TABLES">>
      [] Len(q) >= 4 /\ SubSeq(q, 1, 4) = <<"\\", "d", "+", " ">> ->
            <<"DESCRIBE TABLE ">> \o SubSeq(q, 5, Len(q))
      [] q = <<"\\", "l">> -> <<"SHOW DATABASES">>
      [] Len(q) >= 3 /\ SubSeq(q, 1, 3) = <<"\\", "c", " ">> ->
            <<"USE ">> \o SubSeq(q, 4, Len(q))
      [] OTHER -> q

\* C15: a statement that is no no-op, exit keyword, help, `\ps` or `\kill`
\* goes to client.query as the text the rewriting rules give for it (`\d` and
\* `\dt`: SHOW TABLES; `\d+ <name>`: DESCRIBE TABLE <name>; `\l`: SHOW
\* DATABASES; `\c <name>`: USE <name>; anything else: itself), whatever the
\* mode, the server version, the identifier and the statement's position.
C15_RewritingIsAFunctionOfText ==
    (last.act \in HandleQueryActs
        /\ LET q == last.query[1]
           IN  ~IsNoOp(q) /\ ~IsExit(q) /\ ~IsHelp(q) /\ ~IsPs(q) /\ ~IsKill(q))
        => /\ pc = "inflight"
           /\ Len(sent) = 1
           /\ sent[1] = inflight[1].req
           /\ sent[1].op = "query"
           /\ sent[1].statement = Rewritten(last.query[1])

\* C15's case: `\d+ p` has gone to client.query as DESCRIBE TABLE p.
C15_Witness ==
    /\ last.act = "statement"
    /\ last.query = Some(<<"\\", "d", "+", " ", "p">>)
    /\ pc = "inflight"
    /\ inflight[1].req.statement = <<"DESCRIBE TABLE ", "p">>

\* Whether the output holds a call of an Echo method or of print with text t.
Echoes(t) == \E i \in 1..Len(echoed) : echoed[i].text = t

\* C16: when client.query raises a DBException, handle_query outputs the
\* statement, then the server's error text, then, exactly when the stacktrace
\* flag is set and the exception carries a trace, the trace, and last the
\* elapsed time; it outputs no success marker and no row count.
C16_ServerExceptionReport ==
    (last.act = "respond" /\ last.outcome = "DBException")
        => LET r == last.response[1]
               withTrace == self.stacktrace /\ r.stacktrace # None
               n == Len(echoed)
           IN  /\ \E i \in 1..n, j \in 1..n :
                    /\ i < j /\ j < n
                    /\ echoed[i] = Out("echo.error", last.query[1])
                    /\ echoed[j] = Out("echo.error", <<"e.error">>)
                    /\ echoed[n] = Out("echo.print", <<"\nElapsed: {elapsed:.3f} sec.\n">>)
                    /\ IF withTrace
                       THEN /\ n = j + 3
                            /\ echoed[j + 1] = Out("echo.print", <<"\nStack trace:">>)
                            /\ echoed[j + 2] = Out("echo.print", r.stacktrace[1])
                       ELSE /\ n = j + 1
                            /\ ~Echoes(<<"\nStack trace:">>)
                            /\ ~Echoes(<<"trace">>)
               /\ \A k \in 1..n :
                    /\ echoed[k].fn # "echo.success"
                    /\ echoed[k].text # <<"{rows_count} row", "", " in set.">>
                    /\ echoed[k].text # <<"{rows_count} row", "s", " in set.">>

\* C16's case: the stacktrace flag is set, the exception carried a trace and
\* the trace has been output.
C16_Witness ==
    /\ last.act = "respond"
    /\ last.outcome = "DBException"
    /\ self.stacktrace
    /\ last.response[1].stacktrace = Some(<<"trace">>)
    /\ Echoes(<<"trace">>)
    /\ mode = "interactive"

\* The payload's output after a response, given whether the payload is to be
\* highlighted: streaming, one print per line; buffered and not empty, one
\* call, of the pager when the pager option or force_pager is set and of
\* print otherwise, with the payload highlighted or as it is; nothing else
\* goes to print or to the pager.
PayloadOutputIs(highlighted) ==
    LET r == last.response[1]
        stream == mode = "oneshot"
        payload == {i \in 1..Len(echoed) : echoed[i].fn \in {"print", "echo.pager"}}
    IN  IF stream
        THEN /\ payload = 2..(Len(r.data) + 1)
             /\ \A i \in 1..Len(r.data) : echoed[i + 1] = Out("print", <<r.data[i]>>)
        ELSE IF r.data = <<>>
        THEN payload = {}
        ELSE /\ payload = {2}
             /\ echoed[2].fn = (IF config[1].pager \/ last.force_pager
                                THEN "echo.pager" ELSE "print")
             /\ echoed[2].text = (IF highlighted
                                  THEN <<"pygments.highlight">> \o r.data ELSE r.data)

\* C18 as stated: the buffered payload is highlighted exactly when
\* highlight_output is set, the call is verbose and the response's format is
\* a pretty format.
C18_HighlightByOutputOption ==
    (last.act = "respond" /\ last.outcome = "ok")
        => PayloadOutputIs(/\ self.highlight_output = Some(TRUE)
                           /\ mode = "interactive"
                           /\ last.response[1].format \in PRETTY_FORMATS)

\* C18 amended: the buffered payload is highlighted exactly when highlight
\* and highlight_output are both set, the call is verbose and the response's
\* format is a pretty format; the pager is the output function exactly when
\* the pager option or force_pager is set; the streaming path prints each
\* line as it is.
C18_HighlightByBothOptions ==
    (last.act = "respond" /\ last.outcome = "ok")
        => PayloadOutputIs(/\ self.highlight = Some(TRUE)
                           /\ self.highlight_output = Some(TRUE)
                           /\ mode = "interactive"
                           /\ last.response[1].format \in PRETTY_FORMATS)

\* C18's case: a pretty payload of a verbose call has gone highlighted to the
\* pager, because of the pager marker alone.
C18_Witness ==
    /\ last.act = "respond"
    /\ last.outcome = "ok"
    /\ mode = "interactive"
    /\ last.force_pager
    /\ ~config[1].pager
    /\ last.response[1].data # <<>>
    /\ echoed[2].fn = "echo.pager"
    /\ echoed[2].text[1] = "pygments.highlight"

C19_InFlightStatementIsCancelled ==
    [][/\ Len(inflight) <= 1
       /\ (pc = "inflight") <=> (inflight # None)
       /\ (last.act = "statement")
            => last.query = Some(UnitStatements(last.input[1])[last.index])
       /\ (pc = "inflight" /\ unit # None)
            => \E i \in 1..Len(query_ids) :
                    Some(query_ids[i]) = inflight[1].req.query_id
       /\ (pc = "inflight" /\ mode = "interactive" /\ last'.act = "interrupt")
            => \E i \in 1..Len(sent') :
                    /\ sent'[i].op = "kill"
                    /\ Some(sent'[i].statement) = inflight[1].req.query_id]_vars

\* C20: in the one-shot and the ingestion mode the statement is sent without
\* an identifier and nothing is ever tracked; an interrupt in these modes and
\* in the batch mode makes no kill request and leaves run() as
\* KeyboardInterrupt; kill requests after an interrupt are made by the
\* interactive loop only.
C20_InterruptOutsideTheLoop ==
    /\ (mode \in {"oneshot", "ingest"})
        => /\ query_ids = <<>>
           /\ units = 0
           /\ (pc = "inflight") => inflight[1].req.query_id = None
    /\ (last.act = "interrupt" /\ mode # "interactive")
        => /\ mode \in {"batch", "oneshot", "ingest"}
           /\ sent = <<>>
           /\ echoed = <<>>
           /\ pc = "crashed"
           /\ exc = Some("KeyboardInterrupt")
    /\ (last.act = "interrupt" /\ sent # <<>>) => mode = "interactive"

\* C20's case: an interrupt during the ingestion of a data item has left run().
C20_Witness ==
    /\ last.act = "interrupt"
    /\ mode = "ingest"
    /\ pc = "crashed"
    /\ exc = Some("KeyboardInterrupt")
    /\ sent = <<>>

====
